---- MODULE Spec2Model ----
(***************************************************************************)
(* ExcelOnBrowser: the column label codec (constants.ts), the validator    *)
(* (services/excelService.ts), the grid's error lookup (Grid.tsx), the     *)
(* tear geometry of TearEffect.tsx and of its variant with                 *)
(* generateJaggedEdge, the schema editor (SchemaConfig.tsx) and the        *)
(* application state of App.tsx, as state machines.                        *)
(*                                                                         *)
(* Representation.                                                         *)
(*  - A JS string that the code inspects character by character (a cell   *)
(*    text) is a sequence of one-character strings.  A string the code only *)
(*    interpolates (a rule name, a literal of a message template) is one    *)
(*    token.  A message is the sequence of its tokens.                      *)
(*  - A CellValue is a record [kind, num, str, bool]; kind "undefined" is   *)
(*    the result of an out-of-range read row[i].                            *)
(*  - Percentages of the tear geometry are integers in units of 10^-6 %;    *)
(*    a value printed by toFixed(2) is an integer number of hundredths.     *)
(***************************************************************************)
EXTENDS Integers, Sequences, FiniteSets, TLC

VARIABLES
    labelIndex,        \* getColumnLabel: the argument `index`
    colLabel,        \* getColumnLabel: the returned label
    labelPc,         \* "idle" | "call" | "returned"
    rng,             \* state of the Math.random() stream
    tearI,           \* TearEffect: loop variable i of the tearPoints loop
    tearPoints,      \* TearEffect: points[] / tearPoints
    topClipPath,     \* TearEffect: vertices of the top flap polygon
    bottomClipPath,  \* TearEffect: vertices of the bottom flap polygon
    tearPc,          \* "idle" | "points" | "top" | "bottom" | "rendered"
    data,            \* validateData: the argument `rows`
    schema,          \* validateData: the argument `schema`
    errors,          \* validateData: the returned error list
    validatePc,      \* "idle" | "call" | "returned"
    legacyDates,     \* whether the engine's Date.parse accepts non-ISO text
    calls,           \* the validateData calls made so far, oldest first
    activeError,     \* App: the activeError state (NoError for null)
    isSchemaModalOpen, \* App: the isSchemaModalOpen state
    effect,          \* App: the validation effect: "none" | "deferred" | "sync"
    effectActiveError, \* App: the activeError the pending effect closed over
    uploads,         \* App: the parseExcelFile promises so far, each
                     \* "pending" | "fulfilled" | "rejected"
    edits            \* SchemaConfig: setSchema calls so far

vars == <<labelIndex, colLabel, labelPc,
          rng, tearI, tearPoints, topClipPath, bottomClipPath, tearPc,
          data, schema, errors, validatePc, legacyDates, calls,
          activeError, isSchemaModalOpen, effect, effectActiveError,
          uploads, edits>>

labelVars == <<labelIndex, colLabel, labelPc>>
tearVars == <<rng, tearI, tearPoints, topClipPath, bottomClipPath, tearPc>>
validateVars == <<data, schema, errors, validatePc, legacyDates>>
appVars == <<activeError, isSchemaModalOpen, effect, effectActiveError,
             uploads, edits>>

\* The absent ValidationError: null of activeError, undefined of Array.find.
NoError == [rowIndex |-> 0 - 1, colIndex |-> 0 - 1, message |-> <<>>]

(***************************************************************************)
(* Bounds of the model.                                                    *)
(***************************************************************************)
\* getColumnLabel is applied to every index 0..MaxColumnIndex.
MaxColumnIndex == 9999
\* Math.random() returns the multiples k/JitterRes, 0 <= k < JitterRes.
JitterRes == 16
\* validateData is applied to tables of at most MaxRows rows of at most MaxCols
\* cells and to schemas of at most MaxRules rules.
MaxCols == 2
MaxRows == 2
MaxRules == 2

(***************************************************************************)
(* constants.ts: ALPHABET and getColumnLabel                               *)
(***************************************************************************)
ALPHABET == <<"A","B","C","D","E","F","G","H","I","J","K","L","M",
              "N","O","P","Q","R","S","T","U","V","W","X","Y","Z">>

\* A plausible slip: the character is appended instead of prepended.
RECURSIVE LabelLoopAppend(_, _)
LabelLoopAppend(label, i) ==
    IF i >= 0
    THEN LabelLoopAppend(label \o <<ALPHABET[(i % 26) + 1]>>, (i \div 26) - 1)
    ELSE label

\* while (i >= 0) { label = ALPHABET[i % 26] + label; i = Math.floor(i / 26) - 1; }
RECURSIVE LabelLoop(_, _)
LabelLoop(label, i) ==
    IF i >= 0
    THEN LabelLoop(<<ALPHABET[(i % 26) + 1]>> \o label, (i \div 26) - 1)
    ELSE label

getColumnLabel(index) == LabelLoop(<<>>, index)

InitLabel ==
    /\ labelIndex \in 0..MaxColumnIndex
    /\ colLabel = <<>>
    /\ labelPc = "call"
    \* the other components are not in use
    /\ rng = 0
    /\ tearI = 0
    /\ tearPoints = <<>>
    /\ topClipPath = <<>>
    /\ bottomClipPath = <<>>
    /\ tearPc = "idle"
    /\ data = <<>>
    /\ schema = <<>>
    /\ errors = <<>>
    /\ validatePc = "idle"
    /\ legacyDates = FALSE
    /\ calls = <<>>
    /\ activeError = NoError
    /\ isSchemaModalOpen = FALSE
    /\ effect = "none"
    /\ effectActiveError = NoError
    /\ uploads = <<>>
    /\ edits = 0

\* One call getColumnLabel(labelIndex).
GetColumnLabel ==
    /\ labelPc = "call"
    /\ colLabel' = getColumnLabel(labelIndex)
    /\ labelPc' = "returned"
    /\ UNCHANGED <<labelIndex>>
    /\ UNCHANGED <<tearVars, validateVars, appVars, calls>>

(***************************************************************************)
(* TearEffect.tsx: tearPoints, topClipPath, bottomClipPath                 *)
(***************************************************************************)
pointsCount == 80

\* sin(k * PI / 20) for k = 0..10, in units of 10^-6.
SinQuarter == <<0, 156434, 309017, 453990, 587785, 707107,
                809017, 891007, 951057, 987688, 1000000>>

\* sin(k * PI / 20) for every integer k >= 0, in units of 10^-6.
SinUnits(k) ==
    LET m == k % 40
    IN  IF m <= 10 THEN SinQuarter[m + 1]
        ELSE IF m <= 20 THEN SinQuarter[(20 - m) + 1]
        ELSE IF m <= 30 THEN 0 - SinQuarter[(m - 20) + 1]
        ELSE 0 - SinQuarter[(40 - m) + 1]

\* Math.sin(x * Math.PI * 4) with x = i / pointsCount: the angle is i * PI / 20.
MathSinLarge(i) == SinUnits(i)

\* Math.cos(x * Math.PI * 12) with x = i / pointsCount: cos(a) = sin(a + PI/2),
\* the angle 3 * i * PI / 20 + 10 * PI / 20.
MathCosMedium(i) == SinUnits(3 * i + 10)

\* Math.random(): the value drawn, in units of 10^-6, and the next stream state.
MathRandom(s) == (1000000 * s) \div JitterRes
RngNext(s) == (5 * s + 3) % JitterRes

\* noise = sin(..) * 8 + cos(..) * 4 + Math.random() * 6
Noise(i, s) == MathSinLarge(i) * 8 + MathCosMedium(i) * 4 + MathRandom(s) * 6

Max2(a, b) == IF a >= b THEN a ELSE b
Min2(a, b) == IF a <= b THEN a ELSE b

\* A plausible slip: the lower clamp is left out.
ClampOffsetNoFloor(v) == Min2(25000000, v)

\* Math.max(2, Math.min(25, v))
ClampOffset(v) == Max2(2000000, Min2(25000000, v))

\* points.push(Math.max(2, Math.min(25, 12 + noise)))
TearPoint(i, s) == ClampOffset(12000000 + Noise(i, s))

\* Number.prototype.toFixed(2) of v >= 0 (units 10^-6): the nearest number of
\* hundredths, the larger one when two are equally near.
ToFixed2(v) == (v + 5000) \div 10000

\* x = (i / (tearPoints.length - 1)) * 100, printed with toFixed(2): the nearest
\* number of hundredths to 10000 * i / (len - 1), the larger one on a tie.
VertexX(i, len) == (20000 * i + (len - 1)) \div (2 * (len - 1))

\* A plausible slip: the top flap's edge drawn at `offset` instead of 100 - offset.
TopEdgeYSame(offset) == ToFixed2(offset)

\* (100 - offset).toFixed(2)
TopEdgeY(offset) == ToFixed2(100000000 - offset)

\* offset.toFixed(2)
BottomEdgeY(offset) == ToFixed2(offset)

\* tearPoints.forEach((offset, i) => path += `, ${x}% ${y}%`) of topClipPath
TopJagged(points) ==
    [j \in 1..Len(points) |-> <<VertexX(j - 1, Len(points)), TopEdgeY(points[j])>>]

\* tearPoints.forEach(...) of bottomClipPath (topEdge)
BottomJagged(points) ==
    [j \in 1..Len(points) |-> <<VertexX(j - 1, Len(points)), BottomEdgeY(points[j])>>]

\* polygon(0% 0%, 100% 0%, <jagged>, 0% 100%)
TopPolygon(points) == <<<<0, 0>>, <<10000, 0>>>> \o TopJagged(points) \o <<<<0, 10000>>>>

\* polygon(<jagged>, 100% 100%, 0% 100%)
BottomPolygon(points) == BottomJagged(points) \o <<<<10000, 10000>>, <<0, 10000>>>>

InitTear ==
    /\ rng \in 0..(JitterRes - 1)
    /\ tearI = 0
    /\ tearPoints = <<>>
    /\ topClipPath = <<>>
    /\ bottomClipPath = <<>>
    /\ tearPc = "points"
    \* the other components are not in use
    /\ labelIndex = 0
    /\ colLabel = <<>>
    /\ labelPc = "idle"
    /\ data = <<>>
    /\ schema = <<>>
    /\ errors = <<>>
    /\ validatePc = "idle"
    /\ legacyDates = FALSE
    /\ calls = <<>>
    /\ activeError = NoError
    /\ isSchemaModalOpen = FALSE
    /\ effect = "none"
    /\ effectActiveError = NoError
    /\ uploads = <<>>
    /\ edits = 0

\* One iteration of for (let i = 0; i <= pointsCount; i++) { ... points.push(...) }
TearPointsLoop ==
    /\ tearPc = "points"
    /\ tearI <= pointsCount
    /\ tearPoints' = Append(tearPoints, TearPoint(tearI, rng))
    /\ rng' = RngNext(rng)
    /\ tearI' = tearI + 1
    /\ UNCHANGED <<topClipPath, bottomClipPath, tearPc>>
    /\ UNCHANGED <<labelVars, validateVars, appVars, calls>>

\* The loop ends: return points.
TearPointsReturn ==
    /\ tearPc = "points"
    /\ tearI > pointsCount
    /\ tearPc' = "top"
    /\ UNCHANGED <<rng, tearI, tearPoints, topClipPath, bottomClipPath>>
    /\ UNCHANGED <<labelVars, validateVars, appVars, calls>>

\* useMemo of topClipPath
TopClipPathMemo ==
    /\ tearPc = "top"
    /\ topClipPath' = TopPolygon(tearPoints)
    /\ tearPc' = "bottom"
    /\ UNCHANGED <<rng, tearI, tearPoints, bottomClipPath>>
    /\ UNCHANGED <<labelVars, validateVars, appVars, calls>>

\* useMemo of bottomClipPath
BottomClipPathMemo ==
    /\ tearPc = "bottom"
    /\ bottomClipPath' = BottomPolygon(tearPoints)
    /\ tearPc' = "rendered"
    /\ UNCHANGED <<rng, tearI, tearPoints, topClipPath>>
    /\ UNCHANGED <<labelVars, validateVars, appVars, calls>>

(***************************************************************************)
(* types.ts: CellValue, ColumnSchema, ValidationError                      *)
(***************************************************************************)
Cell(kind, num, str, bool) == [kind |-> kind, num |-> num, str |-> str, bool |-> bool]
Undefined == Cell("undefined", 0, <<>>, FALSE)
Null == Cell("null", 0, <<>>, FALSE)
Num(n) == Cell("number", n, <<>>, FALSE)
Str(s) == Cell("string", 0, s, FALSE)
Bool(b) == Cell("boolean", 0, <<>>, b)

Rule(index, name, type, required) ==
    [index |-> index, name |-> name, type |-> type, required |-> required]

ColumnType == {"String", "Number", "Boolean", "Date"}

ValidationError(rowIndex, colIndex, message) ==
    [rowIndex |-> rowIndex, colIndex |-> colIndex, message |-> message]

(***************************************************************************)
(* The JavaScript conversions validateData relies on                       *)
(***************************************************************************)
DigitChars == <<"0", "1", "2", "3", "4", "5", "6", "7", "8", "9">>
Digits == {DigitChars[k] : k \in 1..10}
LowerAlphabet == <<"a","b","c","d","e","f","g","h","i","j","k","l","m",
                   "n","o","p","q","r","s","t","u","v","w","x","y","z">>
\* The white space and line terminators that occur in the modelled texts.
WhiteSpace == {" ", "\t", "\n", "\r", "\f"}

DigitValue(ch) == (CHOOSE k \in 1..10 : DigitChars[k] = ch) - 1

IsDigits(s) == Len(s) > 0 /\ \A k \in 1..Len(s) : s[k] \in Digits

RECURSIVE DigitsOf(_)
DigitsOf(n) ==
    IF n < 10 THEN <<DigitChars[n + 1]>>
    ELSE DigitsOf(n \div 10) \o <<DigitChars[(n % 10) + 1]>>

\* Number::toString of an integer.
NumberToString(n) == IF n < 0 THEN <<"-">> \o DigitsOf(0 - n) ELSE DigitsOf(n)

\* String(value), also what a template literal interpolates.
String(v) ==
    CASE v.kind = "number" -> NumberToString(v.num)
      [] v.kind = "string" -> v.str
      [] v.kind = "boolean" ->
            IF v.bool THEN <<"t", "r", "u", "e">> ELSE <<"f", "a", "l", "s", "e">>
      [] v.kind = "null" -> <<"n", "u", "l", "l">>
      [] OTHER -> <<"u", "n", "d", "e", "f", "i", "n", "e", "d">>

RECURSIVE TrimStart(_)
TrimStart(s) ==
    IF s # <<>> /\ Head(s) \in WhiteSpace THEN TrimStart(Tail(s)) ELSE s

RECURSIVE TrimEnd(_)
TrimEnd(s) ==
    IF s # <<>> /\ s[Len(s)] \in WhiteSpace THEN TrimEnd(SubSeq(s, 1, Len(s) - 1)) ELSE s

\* String.prototype.trim
Trim(s) == TrimEnd(TrimStart(s))

\* String.prototype.toLowerCase on the modelled alphabet.
LowerChar(ch) ==
    IF \E k \in 1..26 : ALPHABET[k] = ch
    THEN LowerAlphabet[CHOOSE k \in 1..26 : ALPHABET[k] = ch]
    ELSE ch
ToLowerCase(s) == [k \in 1..Len(s) |-> LowerChar(s[k])]

\* StrUnsignedDecimalLiteral without Infinity: digits, digits., digits.digits, .digits
IsMantissa(m) ==
    \/ IsDigits(m)
    \/ \E d \in 1..Len(m) :
          /\ m[d] = "."
          /\ LET a == SubSeq(m, 1, d - 1)
                 b == SubSeq(m, d + 1, Len(m))
             IN  /\ a = <<>> \/ IsDigits(a)
                 /\ b = <<>> \/ IsDigits(b)
                 /\ ~(a = <<>> /\ b = <<>>)

\* The part after e or E of an ExponentPart.
IsExponent(x) ==
    \/ IsDigits(x)
    \/ Len(x) > 1 /\ x[1] \in {"+", "-"} /\ IsDigits(Tail(x))

IsDecimalForm(s) ==
    \/ IsMantissa(s)
    \/ \E p \in 1..Len(s) :
          /\ s[p] \in {"e", "E"}
          /\ IsMantissa(SubSeq(s, 1, p - 1))
          /\ IsExponent(SubSeq(s, p + 1, Len(s)))

InfinityChars == <<"I", "n", "f", "i", "n", "i", "t", "y">>

\* StrUnsignedDecimalLiteral
IsStrUnsignedDecimal(s) == s = InfinityChars \/ IsDecimalForm(s)

\* StrDecimalLiteral: an optional sign and a StrUnsignedDecimalLiteral
IsStrDecimal(s) ==
    \/ IsStrUnsignedDecimal(s)
    \/ Len(s) > 1 /\ s[1] \in {"+", "-"} /\ IsStrUnsignedDecimal(Tail(s))

HexDigits == Digits \cup {"a", "b", "c", "d", "e", "f", "A", "B", "C", "D", "E", "F"}

\* NonDecimalIntegerLiteral: 0x.., 0o.., 0b.. (no sign)
IsNonDecimalInteger(s) ==
    /\ Len(s) >= 3
    /\ s[1] = "0"
    /\ LET body == SubSeq(s, 3, Len(s))
       IN  \/ s[2] \in {"x", "X"} /\ \A k \in 1..Len(body) : body[k] \in HexDigits
           \/ s[2] \in {"o", "O"} /\ \A k \in 1..Len(body) : body[k] \in {"0","1","2","3","4","5","6","7"}
           \/ s[2] \in {"b", "B"} /\ \A k \in 1..Len(body) : body[k] \in {"0", "1"}

\* isNaN(StringToNumber(s)): white space is stripped, the empty text is 0.
StringToNumberIsNaN(s) ==
    LET t == Trim(s)
    IN  ~(t = <<>> \/ IsStrDecimal(t) \/ IsNonDecimalInteger(t))

\* isNaN(Number(value))
NumberIsNaN(v) ==
    CASE v.kind = "number" -> FALSE
      [] v.kind = "boolean" -> FALSE
      [] v.kind = "null" -> FALSE
      [] v.kind = "string" -> StringToNumberIsNaN(v.str)
      [] OTHER -> TRUE

ToInt2(a, b) == DigitValue(a) * 10 + DigitValue(b)
ToInt4(s) == ToInt2(s[1], s[2]) * 100 + ToInt2(s[3], s[4])

IsLeapYear(y) == (y % 4 = 0 /\ y % 100 # 0) \/ y % 400 = 0

DaysInMonth(y, m) ==
    IF m = 2 THEN (IF IsLeapYear(y) THEN 29 ELSE 28)
    ELSE IF m \in {4, 6, 9, 11} THEN 30 ELSE 31

\* The date-only forms of the ECMAScript date-time string format (YYYY,
\* YYYY-MM, YYYY-MM-DD) with legal element values: every engine parses them.
IsIsoDate(t) ==
    \/ Len(t) = 4 /\ IsDigits(t)
    \/ /\ Len(t) = 7
       /\ IsDigits(SubSeq(t, 1, 4)) /\ t[5] = "-" /\ IsDigits(SubSeq(t, 6, 7))
       /\ ToInt2(t[6], t[7]) \in 1..12
    \/ /\ Len(t) = 10
       /\ IsDigits(SubSeq(t, 1, 4)) /\ t[5] = "-" /\ IsDigits(SubSeq(t, 6, 7))
       /\ t[8] = "-" /\ IsDigits(SubSeq(t, 9, 10))
       /\ ToInt2(t[6], t[7]) \in 1..12
       /\ ToInt2(t[9], t[10]) \in 1..DaysInMonth(ToInt4(t), ToInt2(t[6], t[7]))

\* isNaN(Date.parse(t)).  Text outside the standard format is parsed by an
\* implementation-defined fallback: text without any digit is rejected, other
\* text is accepted or rejected as the engine at hand decides (legacyDates).
DateParseIsNaN(t) ==
    IF IsIsoDate(t) THEN FALSE
    ELSE IF \E k \in 1..Len(t) : t[k] \in Digits THEN ~legacyDates
    ELSE TRUE

BooleanWords ==
    { <<"t", "r", "u", "e">>, <<"f", "a", "l", "s", "e">>, <<"1">>, <<"0">>,
      <<"y", "e", "s">>, <<"n", "o">> }

(***************************************************************************)
(* services/excelService.ts: validateData                                  *)
(***************************************************************************)
\* row[rule.index]: undefined when the index is no position of the row.
CellAt(row, index) ==
    IF index \in 0..(Len(row) - 1) THEN row[index + 1] ELSE Undefined

\* cellValue === undefined || cellValue === null ? '' : String(cellValue).trim()
CellStr(cellValue) ==
    IF cellValue.kind \in {"undefined", "null"} THEN <<>> ELSE Trim(String(cellValue))

RequiredMessage(name) == <<"Column '", name, "' is required but was empty.">>
NumberMessage(cellValue) == <<"Expected a Number, got '">> \o String(cellValue) \o <<"'.">>
BooleanMessage(cellValue) ==
    <<"Expected Boolean (true/false), got '">> \o String(cellValue) \o <<"'.">>
DateMessage(cellValue) == <<"Expected a valid Date, got '">> \o String(cellValue) \o <<"'.">>

\* The switch (rule.type) of the type check: the errors it pushes.
TypeCheck(cellValue, cellStr, rowIndex, rule) ==
    CASE rule.type = "Number" ->
            IF NumberIsNaN(cellValue)
            THEN <<ValidationError(rowIndex, rule.index, NumberMessage(cellValue))>>
            ELSE <<>>
      [] rule.type = "Boolean" ->
            IF ToLowerCase(cellStr) \notin BooleanWords
            THEN <<ValidationError(rowIndex, rule.index, BooleanMessage(cellValue))>>
            ELSE <<>>
      [] rule.type = "Date" ->
            IF DateParseIsNaN(cellStr)
            THEN <<ValidationError(rowIndex, rule.index, DateMessage(cellValue))>>
            ELSE <<>>
      [] OTHER -> <<>>

\* A plausible slip: no return after the required error, the type check follows.
CheckRuleNoReturn(row, rowIndex, rule) ==
    LET cellValue == CellAt(row, rule.index)
        cellStr == CellStr(cellValue)
    IN  (IF rule.required /\ cellStr = <<>>
         THEN <<ValidationError(rowIndex, rule.index, RequiredMessage(rule.name))>>
         ELSE <<>>)
        \o TypeCheck(cellValue, cellStr, rowIndex, rule)

\* A plausible slip: the early return for an empty optional cell is left out.
CheckRuleNoSkip(row, rowIndex, rule) ==
    LET cellValue == CellAt(row, rule.index)
        cellStr == CellStr(cellValue)
    IN  IF rule.required /\ cellStr = <<>>
        THEN <<ValidationError(rowIndex, rule.index, RequiredMessage(rule.name))>>
        ELSE TypeCheck(cellValue, cellStr, rowIndex, rule)

\* A plausible slip: the required check tests the raw value for null/undefined
\* instead of the trimmed text for emptiness.
CheckRuleNullOnly(row, rowIndex, rule) ==
    LET cellValue == CellAt(row, rule.index)
        cellStr == CellStr(cellValue)
    IN  IF rule.required /\ cellValue.kind \in {"undefined", "null"}
        THEN <<ValidationError(rowIndex, rule.index, RequiredMessage(rule.name))>>
        ELSE IF cellStr = <<>> THEN <<>>
        ELSE TypeCheck(cellValue, cellStr, rowIndex, rule)

\* The callback of schema.forEach: the errors it pushes for one row and one rule.
CheckRule(row, rowIndex, rule) ==
    LET cellValue == CellAt(row, rule.index)
        cellStr == CellStr(cellValue)
    IN  IF rule.required /\ cellStr = <<>>
        THEN <<ValidationError(rowIndex, rule.index, RequiredMessage(rule.name))>>
        ELSE IF cellStr = <<>> THEN <<>>
        ELSE TypeCheck(cellValue, cellStr, rowIndex, rule)

\* A plausible slip: the rules of a row are left as soon as one of them fails.
RECURSIVE SchemaForEachStop(_, _, _, _, _)
SchemaForEachStop(errs, row, rowIndex, rules, k) ==
    IF k > Len(rules) THEN errs
    ELSE IF CheckRule(row, rowIndex, rules[k]) # <<>>
    THEN errs \o CheckRule(row, rowIndex, rules[k])
    ELSE SchemaForEachStop(errs, row, rowIndex, rules, k + 1)

\* schema.forEach((rule) => ...) from the k-th rule on (k = 1..Len(rules)).
RECURSIVE SchemaForEach(_, _, _, _, _)
SchemaForEach(errs, row, rowIndex, rules, k) ==
    IF k > Len(rules) THEN errs
    ELSE SchemaForEach(errs \o CheckRule(row, rowIndex, rules[k]), row, rowIndex, rules, k + 1)

\* A plausible slip: every row without content is skipped, not only the rows
\* of length zero.
SkipRowBlank(row, rules) ==
    (\A k \in 1..Len(row) : CellStr(row[k]) = <<>>) /\ Len(rules) > 0

\* if (row.length === 0 && schema.length > 0) return;
SkipRow(row, rules) == Len(row) = 0 /\ Len(rules) > 0

\* The callback of rows.forEach: the error list after one row.
CheckRow(errs, row, rowIndex, rules) ==
    IF SkipRow(row, rules) THEN errs
    ELSE SchemaForEach(errs, row, rowIndex, rules, 1)

\* rows.forEach((row, rowIndex) => ...) from rowIndex on (rowIndex = 0..).
RECURSIVE RowsForEach(_, _, _, _)
RowsForEach(errs, rows, rules, rowIndex) ==
    IF rowIndex >= Len(rows) THEN errs
    ELSE RowsForEach(CheckRow(errs, rows[rowIndex + 1], rowIndex, rules),
                     rows, rules, rowIndex + 1)

\* A plausible slip: the error list is a module-level array that every call
\* appends to, instead of the local `const errors = []` of line 31.
validateDataShared(rows, rules) == RowsForEach(errors, rows, rules, 0)

validateData(rows, rules) == RowsForEach(<<>>, rows, rules, 0)

(***************************************************************************)
(* components/Grid.tsx: getError                                           *)
(***************************************************************************)
\* What Array.prototype.find returns when no element matches.
NotFound == ValidationError(0 - 1, 0 - 1, <<>>)

\* A plausible slip: the last matching error is returned instead of the first.
getErrorLast(errs, r, c) ==
    LET hits == {k \in 1..Len(errs) : errs[k].rowIndex = r /\ errs[k].colIndex = c}
    IN  IF hits = {} THEN NotFound
        ELSE errs[CHOOSE k \in hits : \A j \in hits : j <= k]

\* errors.find((e) => e.rowIndex === r && e.colIndex === c)
getError(errs, r, c) ==
    LET hits == {k \in 1..Len(errs) : errs[k].rowIndex = r /\ errs[k].colIndex = c}
    IN  IF hits = {} THEN NotFound
        ELSE errs[CHOOSE k \in hits : \A j \in hits : k <= j]

(***************************************************************************)
(* constants.ts: INITIAL_SCHEMA and INITIAL_DATA                           *)
(***************************************************************************)
INITIAL_SCHEMA ==
    << Rule(0, "ID", "Number", TRUE),
       Rule(1, "Name", "String", TRUE),
       Rule(2, "Age", "Number", FALSE),
       Rule(3, "Is Active", "Boolean", TRUE),
       Rule(4, "Join Date", "Date", FALSE) >>

InvalidAge == <<"I", "n", "v", "a", "l", "i", "d", "A", "g", "e">>

INITIAL_DATA ==
    << << Num(101), Str(<<"A","l","i","c","e"," ","J","o","h","n","s","o","n">>),
          Num(28), Bool(TRUE), Str(<<"2","0","2","3","-","0","1","-","1","5">>) >>,
       << Num(102), Str(<<"B","o","b"," ","S","m","i","t","h">>),
          Str(InvalidAge), Bool(FALSE), Str(<<"2","0","2","3","-","0","2","-","2","0">>) >>,
       << Num(103), Str(<<>>),
          Num(35), Bool(TRUE), Str(<<"2","0","2","3","-","0","3","-","1","0">>) >>,
       << Num(104), Str(<<"D","i","a","n","a"," ","P","r","i","n","c","e">>),
          Num(30), Bool(TRUE), Str(<<"2","0","2","3","-","0","4","-","0","5">>) >> >>

(***************************************************************************)
(* The inputs validateData is applied to                                   *)
(***************************************************************************)
\* One cell value of every kind the validator tells apart.
CellValues ==
    { Null, Str(<<>>), Str(<<" ">>), Str(<<"1", "2">>), Str(<<" ", "5", " ">>),
      Str(<<"a", "b">>), Str(<<"0", "x", "1", "F">>), Num(7), Bool(TRUE),
      Str(<<"2","0","2","3","-","0","1","-","1","5">>) }

SeqsUpTo(S, n) == UNION {[1..m -> S] : m \in 0..n}

\* Every rule over the columns 0..MaxCols (column MaxCols is past every row).
AllRules ==
    {Rule(i, "ID", t, q) : i \in 0..MaxCols, t \in ColumnType, q \in BOOLEAN}

\* One row against one rule: every row of 1..MaxCols cells, every rule.
PairInputs ==
    {<<<<row>>, <<rule>>>> : row \in SeqsUpTo(CellValues, MaxCols) \ {<<>>}, rule \in AllRules}

RowPool ==
    { <<>>,
      <<Str(<<>>), Null>>,
      <<Num(7), Str(<<"a", "b">>)>>,
      <<Str(<<"a", "b">>)>>,
      <<Bool(TRUE), Str(<<"1", "2">>)>> }

RulePool ==
    { Rule(0, "ID", "Number", TRUE),
      Rule(0, "Flag", "Boolean", TRUE),
      Rule(1, "Name", "String", TRUE),
      Rule(1, "Age", "Number", FALSE),
      Rule(0, "When", "Date", FALSE),
      Rule(2, "Extra", "Boolean", TRUE) }

\* Tables of rows against schemas of rules, among them rules that share an index.
TableInputs == SeqsUpTo(RowPool, MaxRows) \X SeqsUpTo(RulePool, MaxRules)

ValidateInputs == PairInputs \cup TableInputs \cup {<<INITIAL_DATA, INITIAL_SCHEMA>>}

InitValidate ==
    /\ \E input \in ValidateInputs :
           /\ data = input[1]
           /\ schema = input[2]
    /\ errors = <<>>
    /\ validatePc = "call"
    /\ legacyDates \in BOOLEAN
    \* the other components are not in use
    /\ labelIndex = 0
    /\ colLabel = <<>>
    /\ labelPc = "idle"
    /\ rng = 0
    /\ tearI = 0
    /\ tearPoints = <<>>
    /\ topClipPath = <<>>
    /\ bottomClipPath = <<>>
    /\ tearPc = "idle"
    /\ calls = <<>>
    /\ activeError = NoError
    /\ isSchemaModalOpen = FALSE
    /\ effect = "none"
    /\ effectActiveError = NoError
    /\ uploads = <<>>
    /\ edits = 0

\* One call validateData(data, schema).
ValidateData ==
    /\ validatePc = "call"
    /\ errors' = validateData(data, schema)
    /\ validatePc' = "returned"
    /\ UNCHANGED <<data, schema, legacyDates>>
    /\ UNCHANGED <<labelVars, tearVars, appVars, calls>>

(***************************************************************************)
(* Specifications                                                          *)
(***************************************************************************)
NextLabel == GetColumnLabel
SpecLabel == InitLabel /\ [][NextLabel]_vars

NextValidate == ValidateData
SpecValidate == InitValidate /\ [][NextValidate]_vars

NextTear == TearPointsLoop \/ TearPointsReturn \/ TopClipPathMemo \/ BottomClipPathMemo
SpecTear == InitTear /\ [][NextTear]_vars

(***************************************************************************)
(* Claims about the tear geometry (SpecTear)                               *)
(***************************************************************************)
\* The i-th jagged vertex (i = 0..Len(tearPoints)-1) of each rendered path.
TopVertex(i) == topClipPath[i + 3]
BottomVertex(i) == bottomClipPath[i + 1]
TearIndexes == 0..(Len(tearPoints) - 1)

C2_OffsetsClamped ==
    /\ \A j \in 1..Len(tearPoints) :
           tearPoints[j] >= 2000000 /\ tearPoints[j] <= 25000000
    /\ tearPc # "points" /\ tearPc # "idle" => Len(tearPoints) = pointsCount + 1

\* Witness of C2: a finished profile in which the lower clamp, the upper clamp
\* and an unclamped offset all occur.
C2_Witness ==
    /\ tearPc = "rendered"
    /\ \E j \in 1..Len(tearPoints) : tearPoints[j] = 2000000
    /\ \E j \in 1..Len(tearPoints) : tearPoints[j] = 25000000
    /\ \E j \in 1..Len(tearPoints) :
           tearPoints[j] > 2000000 /\ tearPoints[j] < 25000000

(***************************************************************************)
(* Claims about the validator and the error lookup (SpecValidate)          *)
(***************************************************************************)
\* The claims' notion of an empty cell: the index is past the row, the value
\* is null, or it is text that holds nothing but white space.
IsEmptyCell(row, index) ==
    \/ index \notin 0..(Len(row) - 1)
    \/ row[index + 1].kind = "null"
    \/ /\ row[index + 1].kind = "string"
       /\ \A k \in 1..Len(row[index + 1].str) : row[index + 1].str[k] \in WhiteSpace

\* The claims' notion of a numeric literal, read most generously: every form
\* that Number() accepts for a non-empty text (signed decimal, integer and
\* scientific forms, Infinity, and the 0x/0o/0b integers).
IsNumericLiteral(t) == IsStrDecimal(t) \/ IsNonDecimalInteger(t)

RemoveAt(seq, k) == SubSeq(seq, 1, k - 1) \o SubSeq(seq, k + 1, Len(seq))

\* The errors of a list that belong to the row at position r (from 0).
ErrorsOfRow(errs, r) == SelectSeq(errs, LAMBDA e : e.rowIndex = r)

\* The errors the validator returns for row r of `data` under the rules `rules`.
RowErrors(r, rules) == ErrorsOfRow(validateData(data, rules), r)

RequiredError(r, rule) == ValidationError(r, rule.index, RequiredMessage(rule.name))

\* C3: for a row of non-zero length and a required rule whose cell is empty,
\* the errors returned for the row are those of the rules before it, then the
\* one required error of this rule (naming rule.name, colIndex = rule.index),
\* then those of the rules after it: exactly one error for the pair, and no
\* type-mismatch error.
C3_RequiredShortCircuit ==
    validatePc = "returned" =>
        \A r \in 1..Len(data) : \A k \in 1..Len(schema) :
            (/\ Len(data[r]) > 0
             /\ schema[k].required
             /\ IsEmptyCell(data[r], schema[k].index))
            => ErrorsOfRow(errors, r - 1) =
                   RowErrors(r - 1, SubSeq(schema, 1, k - 1))
                   \o <<RequiredError(r - 1, schema[k])>>
                   \o RowErrors(r - 1, SubSeq(schema, k + 1, Len(schema)))

\* Witness of C3: the validator has returned the one required error for a row
\* whose white-space-only cell stands under a required Number rule.
C3_Witness ==
    /\ validatePc = "returned"
    /\ Len(data) = 1 /\ Len(schema) = 1
    /\ schema[1].required /\ schema[1].type = "Number"
    /\ CellAt(data[1], schema[1].index) = Str(<<" ">>)
    /\ errors = <<RequiredError(0, schema[1])>>

\* C4: for any row and an optional rule whose cell is empty, the errors
\* returned for the row are those of the rules before it followed by those of
\* the rules after it: the pair adds no error, whatever the rule's type.
C4_OptionalEmptyPasses ==
    validatePc = "returned" =>
        \A r \in 1..Len(data) : \A k \in 1..Len(schema) :
            (/\ ~schema[k].required
             /\ IsEmptyCell(data[r], schema[k].index))
            => ErrorsOfRow(errors, r - 1) =
                   RowErrors(r - 1, SubSeq(schema, 1, k - 1))
                   \o RowErrors(r - 1, SubSeq(schema, k + 1, Len(schema)))

\* Witness of C4: the validator has returned no error for a one-rule schema
\* whose optional Boolean rule meets a white-space-only cell.
C4_Witness ==
    /\ validatePc = "returned"
    /\ Len(data) = 1 /\ Len(schema) = 1
    /\ ~schema[1].required /\ schema[1].type = "Boolean"
    /\ CellAt(data[1], schema[1].index) = Str(<<" ">>)
    /\ errors = <<>>

\* The error e with its rowIndex moved by d.
ShiftRow(e, d) == ValidationError(e.rowIndex + d, e.colIndex, e.message)

\* C5: under a non-empty schema a row of length zero contributes no error and
\* the errors of the other rows are those of the table without that row, each
\* at the row's own position; a row of non-zero length whose cells are all
\* empty gets exactly the required error of every required rule, in order.
C5_EmptyRowSkip ==
    validatePc = "returned" /\ Len(schema) > 0 =>
        \A r \in 1..Len(data) :
            /\ Len(data[r]) = 0 =>
                 LET rest == validateData(RemoveAt(data, r), schema)
                 IN  /\ ErrorsOfRow(errors, r - 1) = <<>>
                     /\ errors = [j \in 1..Len(rest) |->
                                    IF rest[j].rowIndex >= r - 1
                                    THEN ShiftRow(rest[j], 1) ELSE rest[j]]
            /\ (Len(data[r]) > 0 /\ \A c \in 0..(Len(data[r]) - 1) : IsEmptyCell(data[r], c)) =>
                 LET req == SelectSeq(schema, LAMBDA rule : rule.required)
                 IN  ErrorsOfRow(errors, r - 1) =
                         [j \in 1..Len(req) |-> RequiredError(r - 1, req[j])]

\* Witness of C5: a zero-length row precedes a row of empty cells, and the only
\* errors returned are the required errors of that second row, at rowIndex 1.
C5_Witness ==
    /\ validatePc = "returned"
    /\ Len(data) = 2 /\ Len(data[1]) = 0 /\ Len(data[2]) = 2
    /\ \A c \in 0..1 : IsEmptyCell(data[2], c)
    /\ Len(schema) = 2 /\ schema[1].required /\ schema[2].required
    /\ Len(errors) = 2 /\ errors[1].rowIndex = 1 /\ errors[2].rowIndex = 1

\* The errors of the pair (row r, rule k) validated on its own, at the row's
\* position r - 1 in the table.
PairErrors(r, k) ==
    LET alone == validateData(<<data[r]>>, <<schema[k]>>)
    IN  [j \in 1..Len(alone) |-> ShiftRow(alone[j], r - 1)]

\* The pairs from the n-th on in lexicographic order (n = 0..Len(data)*Len(schema)).
RECURSIVE PairErrorsFrom(_)
PairErrorsFrom(n) ==
    IF n >= Len(data) * Len(schema) THEN <<>>
    ELSE PairErrors((n \div Len(schema)) + 1, (n % Len(schema)) + 1) \o PairErrorsFrom(n + 1)

\* C6: the returned list is the concatenation, rows in input order and rules in
\* schema order, of what each (row, rule) pair yields on its own, which is at
\* most one error, at the row's position and at colIndex = rule.index: nothing
\* is dropped, merged or reordered, also when rules share an index.
C6_DiscoveryOrder ==
    validatePc = "returned" =>
        /\ errors = PairErrorsFrom(0)
        /\ \A r \in 1..Len(data) : \A k \in 1..Len(schema) :
               /\ Len(PairErrors(r, k)) <= 1
               /\ \A j \in 1..Len(PairErrors(r, k)) :
                      /\ PairErrors(r, k)[j].rowIndex = r - 1
                      /\ PairErrors(r, k)[j].colIndex = schema[k].index

\* Witness of C6: two rows under two rules that share an index, every pair
\* failing: four errors, two per cell.
C6_Witness ==
    /\ validatePc = "returned"
    /\ Len(data) = 2 /\ Len(schema) = 2
    /\ schema[1].index = schema[2].index
    /\ Len(errors) = 4
    /\ errors[1].message # errors[2].message
    /\ errors[3].rowIndex = 1

\* The list holds a Number-mismatch error at (r, c).
HasNumberError(errs, r, c) ==
    \E j \in 1..Len(errs) :
        /\ errs[j].rowIndex = r
        /\ errs[j].colIndex = c
        /\ errs[j].message[1] = "Expected a Number, got '"

\* C7 as stated: for a non-empty cell under a Number rule a Number-mismatch
\* error is returned exactly when the trimmed text form of the cell is not a
\* numeric literal, for every kind of cell value.
C7_NumberCheckOnText ==
    validatePc = "returned" =>
        \A r \in 1..Len(data) : \A k \in 1..Len(schema) :
            (/\ schema[k].type = "Number"
             /\ ~IsEmptyCell(data[r], schema[k].index))
            => (HasNumberError(errors, r - 1, schema[k].index)
                <=> ~IsNumericLiteral(Trim(String(CellAt(data[r], schema[k].index)))))

\* C8 as stated: the lookup at the cell of every returned error reports an
\* error and returns that error's message, and the lookup at a cell without
\* error reports none.
C8_LookupEveryMessage ==
    validatePc = "returned" =>
        /\ \A k \in 1..Len(errors) :
               LET found == getError(errors, errors[k].rowIndex, errors[k].colIndex)
               IN  found # NotFound /\ found.message = errors[k].message
        /\ \A r \in 0..Len(data) : \A c \in 0..(MaxCols + 1) :
               (\A k \in 1..Len(errors) :
                    ~(errors[k].rowIndex = r /\ errors[k].colIndex = c))
               => getError(errors, r, c) = NotFound

\* C8 as amended: the lookup at the cell of every returned error reports an
\* error, namely the first error of the list at that cell (so it returns e's
\* message when e is the first or only error of its cell), and the lookup at a
\* cell without error reports none.
C8_LookupFirstMessage ==
    validatePc = "returned" =>
        /\ \A k \in 1..Len(errors) :
               LET found == getError(errors, errors[k].rowIndex, errors[k].colIndex)
               IN  /\ found # NotFound
                   /\ \E j \in 1..k :
                          /\ found = errors[j]
                          /\ errors[j].rowIndex = errors[k].rowIndex
                          /\ errors[j].colIndex = errors[k].colIndex
                          /\ \A h \in 1..(j - 1) :
                                 ~(/\ errors[h].rowIndex = errors[k].rowIndex
                                   /\ errors[h].colIndex = errors[k].colIndex)
        /\ \A r \in 0..Len(data) : \A c \in 0..(MaxCols + 1) :
               (\A k \in 1..Len(errors) :
                    ~(errors[k].rowIndex = r /\ errors[k].colIndex = c))
               => getError(errors, r, c) = NotFound

\* Witness of C8: the returned list holds two errors with different messages
\* for one cell.
C8_Witness ==
    /\ validatePc = "returned"
    /\ \E j, k \in 1..Len(errors) :
           /\ j < k
           /\ errors[j].rowIndex = errors[k].rowIndex
           /\ errors[j].colIndex = errors[k].colIndex
           /\ errors[j].message # errors[k].message

\* C10: validateData(INITIAL_DATA, INITIAL_SCHEMA) returns exactly the
\* Number-mismatch error for 'InvalidAge' at (1, 2) and then the required error
\* of column 'Name' at (2, 1); rows 0 and 3 yield no error.
C10_InitialErrors ==
    (validatePc = "returned" /\ data = INITIAL_DATA /\ schema = INITIAL_SCHEMA) =>
        errors = << ValidationError(1, 2, <<"Expected a Number, got '">> \o InvalidAge \o <<"'.">>),
                    ValidationError(2, 1, <<"Column '", "Name", "' is required but was empty.">>) >>

\* Witness of C10: the call on the initial data and schema has returned two errors.
C10_Witness ==
    /\ validatePc = "returned"
    /\ data = INITIAL_DATA
    /\ schema = INITIAL_SCHEMA
    /\ Len(errors) = 2

(***************************************************************************)
(* Claims about the column label codec (SpecLabel)                         *)
(***************************************************************************)
\* Position of a letter in the alphabet, 1..26 (0 when it is no letter).
LetterValue(ch) ==
    IF \E k \in 1..26 : ALPHABET[k] = ch
    THEN CHOOSE k \in 1..26 : ALPHABET[k] = ch
    ELSE 0

\* Reference decoder: a label read as a bijective base-26 numeral, minus one.
RECURSIVE DecodeFrom(_, _)
DecodeFrom(label, acc) ==
    IF label = <<>> THEN acc - 1
    ELSE DecodeFrom(Tail(label), acc * 26 + LetterValue(Head(label)))

DecodeLabel(label) == DecodeFrom(label, 0)

\* C9: for every index in 0..MaxColumnIndex the call returns a non-empty label
\* of letters A..Z whose reference decoding is the index (so distinct indices
\* get distinct labels), with 0 -> A, 25 -> Z, 26 -> AA, 701 -> ZZ, 702 -> AAA.
C9_LabelRoundTrip ==
    labelPc = "returned" =>
        /\ Len(colLabel) >= 1
        /\ \A k \in 1..Len(colLabel) : LetterValue(colLabel[k]) >= 1
        /\ DecodeLabel(colLabel) = labelIndex
        /\ (labelIndex = 0 => colLabel = <<"A">>)
        /\ (labelIndex = 25 => colLabel = <<"Z">>)
        /\ (labelIndex = 26 => colLabel = <<"A", "A">>)
        /\ (labelIndex = 701 => colLabel = <<"Z", "Z">>)
        /\ (labelIndex = 702 => colLabel = <<"A", "A", "A">>)

\* Witness of C9: the call has returned AAA for 702, the first three-letter label.
C9_Witness ==
    /\ labelPc = "returned"
    /\ labelIndex = 702
    /\ colLabel = <<"A", "A", "A">>

(***************************************************************************)
(* Repeated calls of validateData (SpecCalls)                              *)
(***************************************************************************)
MaxCalls == 3

\* Arguments of the calls: the initial table, a table without errors, a table
\* with one error, a date text whose acceptance is the engine's choice, and
\* the empty table.
CallPool ==
    { <<INITIAL_DATA, INITIAL_SCHEMA>>,
      << <<<<Num(7)>>>>, <<Rule(0, "ID", "Number", TRUE)>> >>,
      << <<<<Str(<<"a", "b">>)>>>>, <<Rule(0, "ID", "Number", TRUE)>> >>,
      << <<<<Str(<<"1", "/", "2">>)>>>>, <<Rule(0, "When", "Date", FALSE)>> >>,
      << <<>>, <<>> >> }

InitCalls ==
    /\ data = <<>>
    /\ schema = <<>>
    /\ errors = <<>>
    /\ validatePc = "idle"
    /\ legacyDates \in BOOLEAN
    /\ calls = <<>>
    \* the other components are not in use
    /\ labelIndex = 0
    /\ colLabel = <<>>
    /\ labelPc = "idle"
    /\ rng = 0
    /\ tearI = 0
    /\ tearPoints = <<>>
    /\ topClipPath = <<>>
    /\ bottomClipPath = <<>>
    /\ tearPc = "idle"
    /\ activeError = NoError
    /\ isSchemaModalOpen = FALSE
    /\ effect = "none"
    /\ effectActiveError = NoError
    /\ uploads = <<>>
    /\ edits = 0

\* A caller builds the arguments of its next call.
ChooseArguments ==
    /\ validatePc \in {"idle", "returned"}
    /\ Len(calls) < MaxCalls
    /\ \E input \in CallPool :
           /\ data' = input[1]
           /\ schema' = input[2]
    /\ validatePc' = "call"
    /\ UNCHANGED <<errors, legacyDates, calls>>
    /\ UNCHANGED <<labelVars, tearVars, appVars>>

\* One call validateData(data, schema); the body reads rows, row[rule.index]
\* and the rule's fields and writes only its own error list, so the caller's
\* tables are after the call what they were before it.
CallValidateData ==
    /\ validatePc = "call"
    /\ errors' = validateData(data, schema)
    /\ validatePc' = "returned"
    /\ UNCHANGED <<data, schema, legacyDates>>
    /\ calls' = Append(calls, [rows |-> data, schema |-> schema,
                               rowsAfter |-> data', schemaAfter |-> schema',
                               result |-> errors'])
    /\ UNCHANGED <<labelVars, tearVars, appVars>>

NextCalls == ChooseArguments \/ CallValidateData
SpecCalls == InitCalls /\ [][NextCalls]_vars

NaN == 0 - 1000000

\* The value of a run of decimal digits.
RECURSIVE DigitsValue(_)
DigitsValue(t) ==
    IF t = <<>> THEN 0
    ELSE 10 * DigitsValue(SubSeq(t, 1, Len(t) - 1)) + DigitValue(t[Len(t)])

\* The longest prefix of t made of decimal digits.
RECURSIVE DigitPrefix(_)
DigitPrefix(t) ==
    IF t = <<>> \/ t[1] \notin Digits THEN <<>>
    ELSE <<t[1]>> \o DigitPrefix(Tail(t))

\* parseInt(e.target.value) for the value of a number input (the empty text
\* or a decimal number text): leading white space is skipped, a sign is read,
\* then the leading digits; a text without leading digits gives NaN.
parseInt(text) ==
    LET t == TrimStart(text)
        negative == t # <<>> /\ t[1] = "-"
        body == IF t # <<>> /\ t[1] \in {"-", "+"} THEN Tail(t) ELSE t
        digits == DigitPrefix(body)
    IN  IF digits = <<>> THEN NaN
        ELSE IF negative THEN 0 - DigitsValue(digits)
        ELSE DigitsValue(digits)

\* The characters of a label as one string.
RECURSIVE JoinChars(_)
JoinChars(t) == IF t = <<>> THEN "" ELSE t[1] \o JoinChars(Tail(t))

\* handleAddRule: setSchema([...schema, {index: schema.length, ...}])
handleAddRule(s) ==
    Append(s, Rule(Len(s), "Column " \o JoinChars(getColumnLabel(Len(s))),
                   "String", FALSE))

\* handleRemoveRule: schema.filter((_, idx) => idx !== indexToRemove)
handleRemoveRule(s, indexToRemove) ==
    [k \in 1..(Len(s) - 1) |-> IF k <= indexToRemove THEN s[k] ELSE s[k + 1]]

\* updateRule: newSchema[index] = {...newSchema[index], ...updates}
updateRule(s, index, updates) ==
    [s EXCEPT ![index + 1] =
        [f \in DOMAIN @ |-> IF f \in DOMAIN updates THEN updates[f] ELSE @[f]]]

(***************************************************************************)
(* App.tsx and Grid.tsx: the application state (SpecApp)                   *)
(*                                                                         *)
(* Every state of SpecApp is a committed render: Grid has rendered `data`, *)
(* `errors` and `activeError` as they are in the state, and the handlers   *)
(* of the next event close over these values.  A render in which `data`    *)
(* or `schema` changed leaves the validation effect pending, with the      *)
(* activeError of that render in its closure.  React runs a pending effect *)
(* before the next render.  After a render caused by an event handler the  *)
(* effect runs before anything else ("sync"); after the mount and after    *)
(* the render caused by the import's promise it runs later, and a click on *)
(* the grid can be handled before it ("deferred"): that handler sees the   *)
(* rendered values, and the effect runs before the handler's render.       *)
(***************************************************************************)
MaxImports == 1
MaxSchemaEdits == 1

\* Tables parseExcelFile resolves with: the empty sheet, a table without
\* errors under INITIAL_SCHEMA, and a table with one error in its first row.
ImportPool ==
    { <<>>,
      << <<Num(1), Str(<<"a">>), Num(2), Bool(TRUE)>>,
         <<Num(2), Str(<<"b">>), Num(3), Bool(FALSE)>> >>,
      << <<Str(<<"x">>), Str(<<"a">>), Num(2), Bool(TRUE)>>,
         <<Num(2), Str(<<"b">>), Num(3), Bool(FALSE)>> >> }

\* Texts typed in the schema editor.
TypedNames == {"Full Name"}
TypedIndexTexts == {<<>>, <<"-", "1">>, <<"1">>}

\* schema.map((rule, idx) => ...): the rule cards the user edits, those of the
\* 'Name' and 'Age' rules of INITIAL_SCHEMA while they are there.
RuleCards == {1, 2} \cap (0..(Len(schema) - 1))

\* The columns the user clicks in: those of INITIAL_SCHEMA and of the first
\* added rule.  No rule of an edited schema can put an error in a later column.
ClickedColumns == 0..5

\* Grid: maxCols = Math.max(10, ...data.map(r => r.length))
RECURSIVE maxCols(_)
maxCols(d) == IF d = <<>> THEN 10 ELSE Max2(Len(d[1]), maxCols(Tail(d)))

\* Grid row: isRowExpanded = activeError?.rowIndex === rowIndex
isRowExpanded(active, rowIndex) == active.rowIndex = rowIndex

\* Grid cell: isErrorCell = !!getError(rowIndex, colIdx)
isErrorCell(errs, r, c) == getError(errs, r, c) # NotFound

\* A plausible slip: a click on an error cell always opens its error.
onCellClickOpen(active, errs, r, c) ==
    LET error == getError(errs, r, c)
    IN  IF error # NotFound THEN error ELSE active

\* App onCellClick: the activeError after the handler.
onCellClick(active, errs, r, c) ==
    IF active.rowIndex = r /\ active.colIndex = c THEN NoError
    ELSE LET error == getError(errs, r, c)
         IN  IF error # NotFound THEN error ELSE active

\* Grid cell onClick: an error cell stops the event and calls onCellClick;
\* from any other cell the event bubbles to the container's onCloseError.
cellOnClick(active, errs, r, c) ==
    IF isErrorCell(errs, r, c) THEN onCellClick(active, errs, r, c)
    ELSE NoError

\* The effect's stillExists.
stillExists(newErrors, captured) ==
    \E k \in 1..Len(newErrors) :
        /\ newErrors[k].rowIndex = captured.rowIndex
        /\ newErrors[k].colIndex = captured.colIndex

\* The activeError after the effect: setActiveError(null) if the activeError
\* of the effect's closure is set and no new error is at its cell.
effectActiveErrorAfter(current, captured, newErrors) ==
    IF captured # NoError /\ ~stillExists(newErrors, captured) THEN NoError
    ELSE current

\* A plausible slip: the effect depends on [data] only.
depsChangedDataOnly(dataChanged, schemaChanged) == dataChanged

\* The effect's dependency array [data, schema].
depsChanged(dataChanged, schemaChanged) == dataChanged \/ schemaChanged

\* A plausible slip: the catch branch clears the table.
catchDataCleared(d) == <<>>

\* handleFileUpload's catch branch: console.error and alert, no setData.
catchData(d) == d

\* The mount: the first render shows INITIAL_DATA with errors = [] and leaves
\* the validation effect pending.
InitApp ==
    /\ data = INITIAL_DATA
    /\ schema = INITIAL_SCHEMA
    /\ errors = <<>>
    /\ activeError = NoError
    /\ isSchemaModalOpen = FALSE
    /\ effect = "deferred"
    /\ effectActiveError = NoError
    /\ uploads = <<>>
    /\ edits = 0
    /\ legacyDates \in BOOLEAN
    \* the other components are not in use
    /\ validatePc = "idle"
    /\ calls = <<>>
    /\ labelIndex = 0
    /\ colLabel = <<>>
    /\ labelPc = "idle"
    /\ rng = 0
    /\ tearI = 0
    /\ tearPoints = <<>>
    /\ topClipPath = <<>>
    /\ bottomClipPath = <<>>
    /\ tearPc = "idle"

appIdleVars == <<labelVars, tearVars, validatePc, legacyDates, calls>>

\* useEffect(() => {...}, [data, schema]) runs, followed by its render.
ValidationEffect ==
    /\ effect # "none"
    /\ LET newErrors == validateData(data, schema)
       IN  /\ errors' = newErrors
           /\ activeError' =
                  effectActiveErrorAfter(activeError, effectActiveError, newErrors)
    /\ effect' = "none"
    /\ effectActiveError' = NoError
    /\ UNCHANGED <<data, schema, isSchemaModalOpen, uploads, edits>>
    /\ UNCHANGED appIdleVars

\* What every click on the grid has in common: the modal's overlay covers the
\* grid while the schema editor is open; the handlers call setActiveError only.
GridClick ==
    /\ effect \in {"none", "deferred"}
    /\ ~isSchemaModalOpen
    /\ effect' = IF effect = "deferred" THEN "sync" ELSE effect
    /\ UNCHANGED <<data, schema, errors, isSchemaModalOpen, effectActiveError,
                   uploads, edits>>
    /\ UNCHANGED appIdleVars

\* The td handler of cell (r, c) has run.
CellHandled(r, c) == activeError' = cellOnClick(activeError, errors, r, c)

\* A click on the cell (r, c) of the grid.
CellClickAt(r, c) ==
    /\ GridClick
    /\ r \in 0..(Len(data) - 1)
    /\ c \in ClickedColumns
    /\ c < maxCols(data)
    /\ CellHandled(r, c)

\* A click on some cell of the rendered rows and columns.
CellClick ==
    \E r \in 0..(Len(data) - 1) : \E c \in ClickedColumns : CellClickAt(r, c)

\* onCloseError: a click on the grid container outside the cells, on the
\* reveal, or on the reveal's close button.
CloseError ==
    /\ GridClick
    /\ activeError' = NoError

\* The "Schema Rules" button: setIsSchemaModalOpen(true).
OpenSchemaModal ==
    /\ effect = "none"
    /\ ~isSchemaModalOpen
    /\ isSchemaModalOpen' = TRUE
    /\ UNCHANGED <<data, schema, errors, activeError, effect, effectActiveError,
                   uploads, edits>>
    /\ UNCHANGED appIdleVars

\* SchemaConfig onClose: setIsSchemaModalOpen(false).
CloseSchemaModal ==
    /\ effect = "none"
    /\ isSchemaModalOpen
    /\ isSchemaModalOpen' = FALSE
    /\ UNCHANGED <<data, schema, errors, activeError, effect, effectActiveError,
                   uploads, edits>>
    /\ UNCHANGED appIdleVars

\* handleFileUpload up to the await: without a file it returns, with a file
\* parseExcelFile(file) is started.
HandleFileUpload ==
    /\ effect = "none"
    /\ ~isSchemaModalOpen
    /\ Len(uploads) < MaxImports
    /\ \E hasFile \in BOOLEAN :
           uploads' = IF hasFile THEN Append(uploads, "pending") ELSE uploads
    /\ UNCHANGED <<data, schema, errors, activeError, isSchemaModalOpen, effect,
                   effectActiveError, edits>>
    /\ UNCHANGED appIdleVars

\* parseExcelFile resolves: setData(parsedData); setActiveError(null), and the
\* render of the two.
UploadResolved ==
    /\ effect = "none"
    /\ \E k \in 1..Len(uploads) :
           /\ uploads[k] = "pending"
           /\ uploads' = [uploads EXCEPT ![k] = "fulfilled"]
    /\ \E parsedData \in ImportPool : data' = parsedData
    /\ activeError' = NoError
    /\ effect' = IF depsChanged(TRUE, FALSE) THEN "deferred" ELSE effect
    /\ effectActiveError' = NoError
    /\ UNCHANGED <<schema, errors, isSchemaModalOpen, edits>>
    /\ UNCHANGED appIdleVars

\* parseExcelFile rejects (reader.onerror, or XLSX.read throws): the catch
\* branch.
UploadRejected ==
    /\ effect = "none"
    /\ \E k \in 1..Len(uploads) :
           /\ uploads[k] = "pending"
           /\ uploads' = [uploads EXCEPT ![k] = "rejected"]
    /\ data' = catchData(data)
    /\ effect' = IF depsChanged(data' # data, FALSE) THEN "deferred" ELSE effect
    /\ UNCHANGED <<schema, errors, activeError, isSchemaModalOpen,
                   effectActiveError, edits>>
    /\ UNCHANGED appIdleVars

\* setSchema(newSchema) from a handler of the schema editor, and its render.
SetSchema(newSchema) ==
    /\ effect = "none"
    /\ isSchemaModalOpen
    /\ edits < MaxSchemaEdits
    /\ schema' = newSchema
    /\ edits' = edits + 1
    /\ effect' = IF depsChanged(FALSE, TRUE) THEN "sync" ELSE effect
    /\ effectActiveError' = IF depsChanged(FALSE, TRUE) THEN activeError ELSE NoError
    /\ UNCHANGED <<data, errors, activeError, isSchemaModalOpen, uploads>>
    /\ UNCHANGED appIdleVars

\* The "Add Rule" button.
AddRule == \E newSchema \in {handleAddRule(schema)} : SetSchema(newSchema)

\* The trash button of rule idx.
RemoveRule == \E idx \in RuleCards : SetSchema(handleRemoveRule(schema, idx))

\* The name input of rule idx.
UpdateRuleName ==
    \E idx \in RuleCards : \E value \in TypedNames :
        SetSchema(updateRule(schema, idx, [name |-> value]))

\* The type select of rule idx.
UpdateRuleType ==
    \E idx \in RuleCards : \E value \in ColumnType :
        SetSchema(updateRule(schema, idx, [type |-> value]))

\* The required checkbox of rule idx.
UpdateRuleRequired ==
    \E idx \in RuleCards :
        SetSchema(updateRule(schema, idx, [required |-> ~schema[idx + 1].required]))

\* The Index input of rule idx.
UpdateRuleIndex ==
    \E idx \in RuleCards : \E text \in TypedIndexTexts :
        SetSchema(updateRule(schema, idx, [index |-> parseInt(text)]))

NextApp ==
    \/ ValidationEffect
    \/ CellClick
    \/ CloseError
    \/ OpenSchemaModal
    \/ CloseSchemaModal
    \/ HandleFileUpload
    \/ UploadResolved
    \/ UploadRejected
    \/ AddRule
    \/ RemoveRule
    \/ UpdateRuleName
    \/ UpdateRuleType
    \/ UpdateRuleRequired
    \/ UpdateRuleIndex

SpecApp == InitApp /\ [][NextApp]_vars

\* The step in which the pending effect runs: the ValidationEffect steps are
\* the steps of SpecApp that take `effect` to "none", and one is possible
\* whenever `effect` is not "none".
EffectRuns == effect # "none" /\ effect' = "none"

\* React runs a pending effect.
SpecAppLive == SpecApp /\ WF_effect(EffectRuns)

(***************************************************************************)
(* Claims about the application state (SpecApp)                            *)
(***************************************************************************)
\* C12: in every state in which the grid renders cells or handles a cell
\* click, which is every state of the application, the errors state equals
\* validateData of the current data and the current schema.
C12_NeverStale == errors = validateData(data, schema)

\* C13: the step in which parseExcelFile rejects leaves data, schema, errors
\* and activeError unchanged and schedules no validation, and data is
\* replaced only by the step in which parseExcelFile resolves.
C13_RejectChangesNothing ==
    [][/\ UploadRejected =>
              /\ data' = data
              /\ schema' = schema
              /\ errors' = errors
              /\ activeError' = activeError
              /\ effect' = effect
       /\ data' # data => UploadResolved]_vars

\* A parse was rejected while a reveal was open on a validated table.
C13_Witness ==
    /\ \E k \in 1..Len(uploads) : uploads[k] = "rejected"
    /\ activeError # NoError
    /\ errors # <<>>
    /\ effect = "none"

(***************************************************************************)
(* The tear-effect component of part_002: generateJaggedEdge (SpecJagged)  *)
(*                                                                         *)
(* A vertex is <<x, y>> in units of 10^-6 %; topClipPath and               *)
(* bottomClipPath hold the vertices of topClip and bottomClip, tearI is    *)
(* the loop variable i.                                                    *)
(***************************************************************************)
steps == 40

\* const x = (i / steps) * 100
JaggedX(i) == ((1000000 * i) \div steps) * 100

\* const randomY = 80 + Math.random() * 20
JaggedTopY(s) == 80000000 + MathRandom(s) * 20

\* const randomY = 0 + Math.random() * 20
JaggedBottomY(s) == 0 + MathRandom(s) * 20

\* useState(() => generateJaggedEdge('top')) is entered: points = '0% 0%, 100% 0%'
InitJagged ==
    /\ rng \in 0..(JitterRes - 1)
    /\ tearI = steps
    /\ tearPoints = <<>>
    /\ topClipPath = << <<0, 0>>, <<100000000, 0>> >>
    /\ bottomClipPath = <<>>
    /\ tearPc = "jagTop"
    \* the other components are not in use
    /\ labelIndex = 0
    /\ colLabel = <<>>
    /\ labelPc = "idle"
    /\ data = <<>>
    /\ schema = <<>>
    /\ errors = <<>>
    /\ validatePc = "idle"
    /\ legacyDates = FALSE
    /\ calls = <<>>
    /\ activeError = NoError
    /\ isSchemaModalOpen = FALSE
    /\ effect = "none"
    /\ effectActiveError = NoError
    /\ uploads = <<>>
    /\ edits = 0

\* One iteration of for (let i = steps; i >= 0; i--) of side 'top'.
JaggedTopLoop ==
    /\ tearPc = "jagTop"
    /\ tearI >= 0
    /\ topClipPath' = Append(topClipPath, <<JaggedX(tearI), JaggedTopY(rng)>>)
    /\ rng' = RngNext(rng)
    /\ tearI' = tearI - 1
    /\ UNCHANGED <<tearPoints, bottomClipPath, tearPc>>
    /\ UNCHANGED <<labelVars, validateVars, appVars, calls>>

\* The top polygon is returned and generateJaggedEdge('bottom') is entered:
\* points = '100% 100%, 0% 100%'
JaggedTopReturn ==
    /\ tearPc = "jagTop"
    /\ tearI < 0
    /\ bottomClipPath' = << <<100000000, 100000000>>, <<0, 100000000>> >>
    /\ tearI' = 0
    /\ tearPc' = "jagBottom"
    /\ UNCHANGED <<rng, tearPoints, topClipPath>>
    /\ UNCHANGED <<labelVars, validateVars, appVars, calls>>

\* One iteration of for (let i = 0; i <= steps; i++) of side 'bottom'.
JaggedBottomLoop ==
    /\ tearPc = "jagBottom"
    /\ tearI <= steps
    /\ bottomClipPath' = Append(bottomClipPath, <<JaggedX(tearI), JaggedBottomY(rng)>>)
    /\ rng' = RngNext(rng)
    /\ tearI' = tearI + 1
    /\ UNCHANGED <<tearPoints, topClipPath, tearPc>>
    /\ UNCHANGED <<labelVars, validateVars, appVars, calls>>

\* The bottom polygon is returned.
JaggedBottomReturn ==
    /\ tearPc = "jagBottom"
    /\ tearI > steps
    /\ tearPc' = "jagged"
    /\ UNCHANGED <<rng, tearI, tearPoints, topClipPath, bottomClipPath>>
    /\ UNCHANGED <<labelVars, validateVars, appVars, calls>>

NextJagged ==
    JaggedTopLoop \/ JaggedTopReturn \/ JaggedBottomLoop \/ JaggedBottomReturn
SpecJagged == InitJagged /\ [][NextJagged]_vars

\* C14: once both polygons are generated, a vertex of the top flap's lower
\* edge and a vertex of the bottom flap's upper edge that have the same x
\* have y-values whose sum is 100.
C14_SharedOffsets ==
    tearPc = "jagged" =>
        \A j \in 3..Len(topClipPath) : \A k \in 3..Len(bottomClipPath) :
            topClipPath[j][1] = bottomClipPath[k][1]
                => topClipPath[j][2] + bottomClipPath[k][2] = 100000000

(***************************************************************************)
(* Claims about the application state, continued (SpecApp, SpecAppLive)    *)
(***************************************************************************)
\* C15: whenever the validation effect is pending it eventually has run, and
\* whenever no validation is pending the errors state is validateData of the
\* current data and the current schema, computed from the empty list.
C15_Revalidated ==
    /\ [](effect = "none" => errors = validateData(data, schema))
    /\ [](effect # "none" => <>(effect = "none"))

\* A file was imported and the schema was edited, and the effect has run on
\* them: the error list is neither empty nor the one of the initial table.
C15_Witness ==
    /\ effect = "none"
    /\ edits > 0
    /\ \E k \in 1..Len(uploads) : uploads[k] = "fulfilled"
    /\ errors = validateData(data, schema)
    /\ errors # <<>>
    /\ errors # validateData(INITIAL_DATA, INITIAL_SCHEMA)

\* C16: every rule of the schema has an index that is a non-negative integer.
C16_IndexNonNegative ==
    \A k \in 1..Len(schema) :
        /\ schema[k].index # NaN
        /\ schema[k].index >= 0

\* C17: once the validation effect has run (no validation is pending),
\* activeError is null or is at the cell of some error of the error list.
C17_ActiveErrorValid ==
    effect = "none" => (activeError = NoError \/ stillExists(errors, activeError))

\* C18: whenever a reveal is open, no validation is pending and the error
\* list holds an error for the reveal's cell, the message shown in the reveal
\* is the message of that error.
C18_RevealShowsCurrentMessage ==
    (/\ effect = "none"
     /\ activeError # NoError
     /\ isErrorCell(errors, activeError.rowIndex, activeError.colIndex))
        => activeError.message =
               getError(errors, activeError.rowIndex, activeError.colIndex).message

\* The rows under which Grid renders a tear reveal.
RevealRows ==
    {r \in 0..(Len(data) - 1) : isRowExpanded(activeError, r) /\ activeError # NoError}

\* C19: in every step that is a click on the grid, data, schema and errors
\* do not change, and if the step is a click on the cell (r, c): when (r, c)
\* is the cell of the open error the reveal is closed; when it is another cell
\* that has an error, the first error of that cell becomes the activeError;
\* when it has no error, no reveal is open afterwards.  In every state at most
\* one reveal is rendered.
C19_ClickToggle ==
    /\ [](Cardinality(RevealRows) <= 1)
    /\ [][GridClick =>
            /\ UNCHANGED <<data, schema, errors>>
            /\ \A r \in 0..(Len(data) - 1) : \A c \in ClickedColumns :
                   CellHandled(r, c) =>
                       /\ (activeError.rowIndex = r /\ activeError.colIndex = c)
                              => activeError' = NoError
                       /\ (/\ ~(activeError.rowIndex = r /\ activeError.colIndex = c)
                           /\ isErrorCell(errors, r, c))
                              => activeError' = getError(errors, r, c)
                       /\ ~isErrorCell(errors, r, c) => activeError' = NoError]_vars

\* A reveal is open on one error cell while another cell has an error too.
C19_Witness ==
    /\ effect = "none"
    /\ Cardinality(RevealRows) = 1
    /\ isErrorCell(errors, activeError.rowIndex, activeError.colIndex)
    /\ \E k \in 1..Len(errors) :
           ~(errors[k].rowIndex = activeError.rowIndex
             /\ errors[k].colIndex = activeError.colIndex)

====
